---- MODULE Spec2Model ----
(***************************************************************************)
(* shape_element of submit_p2/data_additional.py as a state machine.       *)
(*                                                                         *)
(* A string is a sequence of characters, each character a TLA+ string.     *)
(* Characters outside ASCII are written as tokens:                         *)
(*   "FU"   U+5E9C (prefecture)      "SHI"  U+5E02 (city)                  *)
(*   "KU"   U+533A (ward)            "KYO"  U+4EAC (any other kanji)       *)
(*   "FW1", "FW2"  full-width digits U+FF11, U+FF12                        *)
(*   "IDSP" U+3000 ideographic space                                       *)
(* A dictionary is a function whose domain is its set of keys.             *)
(***************************************************************************)
EXTENDS Integers, Sequences, FiniteSets, TLC

\* ------------------------------------------------------------------------
\* Strings
\* ------------------------------------------------------------------------

NL == "\n"

Digits == {"0", "1", "2", "3", "4", "5", "6", "7", "8", "9"}

\* [a-z] and "_" of lower_colon
LowerChars ==
  {"a", "b", "c", "d", "e", "f", "g", "h", "i", "j", "k", "l", "m", "n", "o",
   "p", "q", "r", "s", "t", "u", "v", "w", "x", "y", "z", "_"}

\* \s of a pattern compiled without re.UNICODE: [ \t\n\r\f\v]
WhiteSpace == {" ", "\t", NL, "\r", "\f"}

\* the character class of problemchars (the pattern is a byte string, so its
\* literal U+3000 is three bytes, none of which is the character U+3000)
ProblemCharSet ==
  {"=", "+", "/", "&", "<", ">", ";", "'", "\"", "?", "%", "#", "$", "@", ",",
   "."} \cup WhiteSpace

Min(a, b) == IF a < b THEN a ELSE b

Max(a, b) == IF a < b THEN b ELSE a

\* Python's s[a:b] for 0 <= a <= b
Slice(s, a, b) == SubSeq(s, a + 1, Min(b, Len(s)))

StartsWith(s, p) == Len(s) >= Len(p) /\ SubSeq(s, 1, Len(p)) = p

RECURSIVE Replace(_, _)
\* Python's s.replace(sub, ""), sub not empty
Replace(s, sub) ==
  IF Len(s) < Len(sub) THEN s
  ELSE IF SubSeq(s, 1, Len(sub)) = sub
       THEN Replace(SubSeq(s, Len(sub) + 1, Len(s)), sub)
       ELSE <<s[1]>> \o Replace(Tail(s), sub)

NFKCChar(c) ==
  CASE c = "FW1" -> "1"
    [] c = "FW2" -> "2"
    [] c = "IDSP" -> " "
    [] OTHER -> c

\* unicodedata.normalize('NFKC', s) on the characters of the model
NFKC(s) == [i \in 1..Len(s) |-> NFKCChar(s[i])]

\* an optional string: None, or a string
None == [some |-> FALSE, str |-> <<>>]

Some(s) == [some |-> TRUE, str |-> s]

\* unicode(x): the string itself, or u"None" for None
Unicode(o) == IF o.some THEN o.str ELSE <<"N", "o", "n", "e">>

\* a test for None alone: the empty string counts as a coordinate
TruthyNotNone(o) == o.some

\* truth value of an optional string: None and "" are false
Truthy(o) == o.some /\ o.str # <<>>

\* a pattern ending in "$" matched against the whole string: "$" matches at
\* the end and just before a final line break
MatchDollar(P(_), s) ==
  \/ P(s)
  \/ Len(s) > 0 /\ s[Len(s)] = NL /\ P(SubSeq(s, 1, Len(s) - 1))

\* ------------------------------------------------------------------------
\* The compiled patterns (lines 41-51).  A search result is the match's
\* first and last position; group() is the text between them.
\* ------------------------------------------------------------------------

NoMatch == [found |-> FALSE, s |-> 0, e |-> 0]

Match(a, b) == [found |-> TRUE, s |-> a, e |-> b]

Group(text, m) == SubSeq(text, m.s, m.e)

\* "." matches every character but a line break
NoBreak(text, a, b) == \A n \in a..b : text[n] # NL

\* the leftmost position of S, S a non-empty set of positions
Leftmost(S) == CHOOSE a \in S : \A b \in S : a <= b

Last(S) == CHOOSE a \in S : \A b \in S : b <= a

\* lower_colon = ^([a-z]|_)*:([a-z]|_)*$
LowerColonBody(s) ==
  \E p \in 1..Len(s) :
    /\ s[p] = ":"
    /\ \A n \in 1..Len(s) : n # p => s[n] \in LowerChars

lower_colon(s) == MatchDollar(LowerColonBody, s)

\* problemchars.search(s)
problemchars(s) == \E n \in 1..Len(s) : s[n] \in ProblemCharSet

AddrPrefix == <<"a", "d", "d", "r", ":">>

\* addr.match(s): the pattern at the start of s
addr(s) == StartsWith(s, AddrPrefix)

\* where \((.)*\) matches from position a: the last ")" of the line
ParenEnds(text, a) ==
  {b \in (a + 1)..Len(text) : text[b] = ")" /\ NoBreak(text, a + 1, b - 1)}

YesAt(text, a) == a + 2 <= Len(text) /\ SubSeq(text, a, a + 2) = <<"y", "e", "s">>

\* addr_problemchars = \((.)*\)|yes
addr_problemchars(text) ==
  LET starts == {a \in 1..Len(text) :
                   \/ text[a] = "(" /\ ParenEnds(text, a) # {}
                   \/ YesAt(text, a)}
  IN IF starts = {} THEN NoMatch
     ELSE LET a == Leftmost(starts)
          IN IF text[a] = "(" THEN Match(a, Last(ParenEnds(text, a)))
             ELSE Match(a, a + 2)

\* where ;(.)*$ matches from position a: the end of the text or the character
\* before its final line break, the rest of the line having no other break
SemiEnds(text, a) ==
  {b \in a..Len(text) :
     /\ NoBreak(text, a + 1, b)
     /\ \/ b = Len(text)
        \/ b = Len(text) - 1 /\ text[Len(text)] = NL}

\* addr_semicolon = ;(.)*$
addr_semicolon(text) ==
  LET starts == {a \in 1..Len(text) : text[a] = ";" /\ SemiEnds(text, a) # {}}
  IN IF starts = {} THEN NoMatch
     ELSE LET a == Leftmost(starts) IN Match(a, Last(SemiEnds(text, a)))

\* addr_space = [\s<U+3000 as bytes>]
addr_space(text) ==
  LET starts == {a \in 1..Len(text) : text[a] \in WhiteSpace}
  IN IF starts = {} THEN NoMatch
     ELSE Match(Leftmost(starts), Leftmost(starts))

IsPostcode(s) ==
  /\ Len(s) = 8
  /\ s[4] = "-"
  /\ \A n \in {1, 2, 3, 5, 6, 7, 8} : s[n] \in Digits

\* re_postcode = ^([0-9]{3}-[0-9]{4}$)
re_postcode(text) == MatchDollar(IsPostcode, text)

IsDomesticPhone(s) ==
  /\ Len(s) = 12
  /\ s[1] = "0"
  /\ s[4] = "-"
  /\ s[8] = "-"
  /\ \A n \in {2, 3, 5, 6, 7, 9, 10, 11, 12} : s[n] \in Digits

IsIntlPhone(s) ==
  /\ Len(s) >= 4
  /\ s[1] = "8"
  /\ s[2] = "1"
  /\ s[3] \in WhiteSpace
  /\ \A n \in 4..Len(s) : s[n] \in Digits

\* re_phonenumber = (^(0[0-9]{2}-[0-9]{3}-[0-9]{4}$)|^(81\s[0-9]+$))
re_phonenumber(text) ==
  MatchDollar(IsDomesticPhone, text) \/ MatchDollar(IsIntlPhone, text)

\* where [^FU]+SHI matches from position a: the last SHI after a that no FU
\* separates from a
CityEnds(text, a) ==
  {b \in (a + 1)..Len(text) :
     text[b] = "SHI" /\ \A n \in a..(b - 1) : text[n] # "FU"}

\* re_city = [^FU]+SHI
re_city(text) ==
  LET starts == {a \in 1..Len(text) : CityEnds(text, a) # {}}
  IN IF starts = {} THEN NoMatch
     ELSE LET a == Leftmost(starts) IN Match(a, Last(CityEnds(text, a)))

\* the KU that [^SHI]+KU can end at from position a
WardMarks(text, a) ==
  {b \in (a + 1)..Len(text) :
     text[b] = "KU" /\ \A n \in a..(b - 1) : text[n] # "SHI"}

\* re_ward = [^SHI]+KU(.)*
re_ward(text) ==
  LET starts == {a \in 1..Len(text) : WardMarks(text, a) # {}}
  IN IF starts = {} THEN NoMatch
     ELSE LET a == Leftmost(starts)
              q == Last(WardMarks(text, a))
          IN Match(a, Last({b \in q..Len(text) : NoBreak(text, q + 1, b)}))

\* CREATED (line 56)
CREATED ==
  {<<"v", "e", "r", "s", "i", "o", "n">>,
   <<"c", "h", "a", "n", "g", "e", "s", "e", "t">>,
   <<"t", "i", "m", "e", "s", "t", "a", "m", "p">>,
   <<"u", "s", "e", "r">>,
   <<"u", "i", "d">>}

\* ------------------------------------------------------------------------
\* float(x) on the strings of the model: blanks around, a sign, digits with
\* at most one point, every decimal digit and space character read as its
\* ASCII counterpart.  The value is kept as its shortest decimal writing.
\* ------------------------------------------------------------------------

RECURSIVE LStrip(_, _)
LStrip(s, S) == IF s # <<>> /\ s[1] \in S THEN LStrip(Tail(s), S) ELSE s

RECURSIVE RStrip(_, _)
RStrip(s, S) ==
  IF s # <<>> /\ s[Len(s)] \in S THEN RStrip(SubSeq(s, 1, Len(s) - 1), S) ELSE s

Unsigned(s) == IF s # <<>> /\ s[1] \in {"-", "+"} THEN Tail(s) ELSE s

Stripped(s) == RStrip(LStrip(NFKC(s), WhiteSpace), WhiteSpace)

IsFloat(s) ==
  LET b == Unsigned(Stripped(s))
  IN /\ \A n \in 1..Len(b) : b[n] \in Digits \cup {"."}
     /\ Cardinality({n \in 1..Len(b) : b[n] = "."}) <= 1
     /\ \E n \in 1..Len(b) : b[n] \in Digits

\* float(s) for IsFloat(s)
Float(s) ==
  LET t == Stripped(s)
      b == Unsigned(t)
      dots == {n \in 1..Len(b) : b[n] = "."}
      p == IF dots = {} THEN Len(b) + 1 ELSE Leftmost(dots)
      int == LStrip(SubSeq(b, 1, p - 1), {"0"})
      frac == RStrip(SubSeq(b, p + 1, Len(b)), {"0"})
  IN (IF t[1] = "-" THEN <<"-">> ELSE <<>>)
       \o (IF int = <<>> THEN <<"0">> ELSE int)
       \o <<".">>
       \o (IF frac = <<>> THEN <<"0">> ELSE frac)

\* ------------------------------------------------------------------------
\* Records: a dictionary from keys to values; a value is a string, a
\* dictionary of strings ("created", "address") or a list of strings
\* ("pos", "node_refs").  Floats are kept as the strings Float gives.
\* ------------------------------------------------------------------------

EmptyDict == [k \in {} |-> <<>>]

StrV(s) == [kind |-> "str", str |-> s, dict |-> EmptyDict, list |-> <<>>]

DictV(d) == [kind |-> "dict", str |-> <<>>, dict |-> d, list |-> <<>>]

ListV(l) == [kind |-> "list", str |-> <<>>, dict |-> EmptyDict, list |-> l]

\* d[k] = v
Put(d, k, v) == [x \in DOMAIN d \cup {k} |-> IF x = k THEN v ELSE d[x]]

\* d.has_key(k)
has_key(d, k) == k \in DOMAIN d

NodeTag == <<"n", "o", "d", "e">>
WayTag == <<"w", "a", "y">>
TypeKey == <<"t", "y", "p", "e">>
TypeMKey == <<"t", "y", "p", "e", "_", "m">>
CreatedKey == <<"c", "r", "e", "a", "t", "e", "d">>
AddressKey == <<"a", "d", "d", "r", "e", "s", "s">>
PosKey == <<"p", "o", "s">>
NodeRefsKey == <<"n", "o", "d", "e", "_", "r", "e", "f", "s">>
PhoneKey == <<"p", "h", "o", "n", "e">>
LatKey == <<"l", "a", "t">>
LonKey == <<"l", "o", "n">>
CityKey == <<"c", "i", "t", "y">>
StreetKey == <<"s", "t", "r", "e", "e", "t">>
HousenumberKey == <<"h", "o", "u", "s", "e", "n", "u", "m", "b", "e", "r">>
HousenameKey == <<"h", "o", "u", "s", "e", "n", "a", "m", "e">>
PostcodeKey == <<"p", "o", "s", "t", "c", "o", "d", "e">>

\* address_key (line 118)
address_key == <<CityKey, StreetKey, HousenumberKey, HousenameKey, PostcodeKey>>

\* the outcome of a piece of code: the exception it raised ("" for none) and
\* the locals it leaves
Ok(n, la, lo) == [err |-> "", node |-> n, lat |-> la, lon |-> lo]

Raised(e, n, la, lo) == [err |-> e, node |-> n, lat |-> la, lon |-> lo]

\* lines 68-86: one attribute, atr its name and val its value
MapAttrib(n, la, lo, atr, val) ==
  IF atr \in CREATED
  THEN LET n1 == IF has_key(n, CreatedKey) THEN n
                 ELSE Put(n, CreatedKey, DictV(EmptyDict))
       IN IF n1[CreatedKey].kind # "dict" THEN Raised("TypeError", n1, la, lo)
          ELSE Ok(Put(n1, CreatedKey,
                      DictV(Put(n1[CreatedKey].dict, atr, NFKC(val)))), la, lo)
  ELSE IF atr = LatKey \/ atr = LonKey
  THEN LET la1 == IF atr = LatKey THEN Some(val) ELSE la
           lo1 == IF atr = LonKey THEN Some(val) ELSE lo
       IN IF Truthy(la1) /\ Truthy(lo1)
          THEN IF IsFloat(la1.str) /\ IsFloat(lo1.str)
               THEN Ok(Put(n, PosKey, ListV(<<Float(la1.str), Float(lo1.str)>>)),
                       la1, lo1)
               ELSE Raised("ValueError", n, la1, lo1)
          ELSE Ok(n, la1, lo1)
  ELSE Ok(Put(n, atr, StrV(NFKC(val))), la, lo)

\* lines 90-112: one nested tag, its k and v optional strings
RouteTag(n, tag) ==
  IF ~tag.k.some THEN [err |-> "TypeError", node |-> n]
  ELSE LET tk == tag.k.str
           tagv == NFKC(Unicode(tag.v))
       IN IF problemchars(tk) THEN [err |-> "", node |-> n]
          ELSE IF addr(tk)
          THEN LET ad_cont == Slice(tk, 5, Len(tk))
               IN IF lower_colon(ad_cont) THEN [err |-> "", node |-> n]
                  ELSE LET n1 == IF has_key(n, AddressKey) THEN n
                                 ELSE Put(n, AddressKey, DictV(EmptyDict))
                       IN IF n1[AddressKey].kind # "dict"
                          THEN [err |-> "TypeError", node |-> n1]
                          ELSE [err |-> "",
                                node |-> Put(n1, AddressKey,
                                  DictV(Put(n1[AddressKey].dict, ad_cont, tagv)))]
          ELSE IF tk = TypeKey
               THEN [err |-> "", node |-> Put(n, TypeMKey, StrV(tagv))]
               ELSE [err |-> "", node |-> Put(n, tk, StrV(tagv))]

RECURSIVE RouteTags(_, _)
\* lines 89-112: for tag in element.iter("tag"), from the record n
RouteTags(n, tags) ==
  IF tags = <<>> THEN [err |-> "", node |-> n]
  ELSE LET r == RouteTag(n, Head(tags))
       IN IF r.err # "" THEN r ELSE RouteTags(r.node, Tail(tags))

\* lines 66-112: one turn of the loop over the attributes, which holds the
\* loop over the nested tags
AttribTurn(n, la, lo, atr, val, tags) ==
  LET a == MapAttrib(n, la, lo, atr, val)
  IN IF a.err # "" THEN a
     ELSE LET r == RouteTags(a.node, tags)
          IN IF r.err # "" THEN Raised(r.err, r.node, a.lat, a.lon)
             ELSE Ok(r.node, a.lat, a.lon)

\* lines 122-139: the three generic cleaning steps, every pattern searched
\* in the value as it was before the first step
GenericClean(t) ==
  LET problem_chars == addr_problemchars(t)
      semi_chars == addr_semicolon(t)
      space_chars == addr_space(t)
      t1 == IF problem_chars.found THEN Replace(t, Group(t, problem_chars)) ELSE t
      t2 == IF semi_chars.found THEN Replace(t1, Group(t, semi_chars)) ELSE t1
  IN IF space_chars.found THEN Replace(t2, Group(t, space_chars)) ELSE t2

\* lines 143-158: the city rule on the address dictionary a
CityRule(a, t) ==
  LET city_chars == re_city(t)
      ward_chars == re_ward(t)
      a1 == Put(a, CityKey, IF city_chars.found THEN Group(t, city_chars) ELSE <<>>)
  IN IF ward_chars.found
     THEN IF has_key(a1, StreetKey)
          THEN Put(a1, StreetKey, Group(t, ward_chars) \o a1[StreetKey])
          ELSE Put(a1, StreetKey, Group(t, ward_chars))
     ELSE a1

\* the second slice one character early: the hyphen is kept
UnhyphenOffByOne(t) == Slice(t, 0, 3) \o Slice(t, 3, 8)

\* line 164 and line 178: text[0:3] + text[4:8]
Unhyphen(t) == Slice(t, 0, 3) \o Slice(t, 4, 8)

\* lines 161-164: the postcode rule
PostcodeRule(a, t) ==
  IF re_postcode(t) THEN Put(a, PostcodeKey, Unhyphen(t)) ELSE a

\* lines 167-179: the housenumber/street rule on the record n
ConfusedRule(n, key, t) ==
  LET a == n[AddressKey].dict
  IN IF re_phonenumber(t)
     THEN IF ~has_key(n, CreatedKey) THEN [err |-> "KeyError", node |-> n]
          ELSE IF n[CreatedKey].kind # "dict"
          THEN [err |-> "AttributeError", node |-> n]
          ELSE IF ~has_key(n[CreatedKey].dict, PhoneKey)
          THEN [err |-> "",
                node |-> Put(Put(n, CreatedKey,
                                 DictV(Put(n[CreatedKey].dict, PhoneKey, t))),
                             AddressKey, DictV(Put(a, key, <<>>)))]
          ELSE [err |-> "", node |-> n]
     ELSE IF re_postcode(t) /\ ~has_key(a, PostcodeKey)
     THEN [err |-> "",
           node |-> Put(n, AddressKey,
                        DictV(Put(Put(a, PostcodeKey, Unhyphen(t)), key, <<>>)))]
     ELSE [err |-> "", node |-> n]

\* lines 142-179: the rule of one address key
KeyRule(n, key, t) ==
  LET a == n[AddressKey].dict
  IN IF key = CityKey
     THEN [err |-> "", node |-> Put(n, AddressKey, DictV(CityRule(a, t)))]
     ELSE IF key = PostcodeKey
     THEN [err |-> "", node |-> Put(n, AddressKey, DictV(PostcodeRule(a, t)))]
     ELSE IF key = HousenumberKey \/ key = StreetKey
     THEN ConfusedRule(n, key, t)
     ELSE [err |-> "", node |-> n]

\* ------------------------------------------------------------------------
\* shape_element(element), one call
\* ------------------------------------------------------------------------

VARIABLES
  element,  \* the argument: tag, attrib (name/value pairs in the order the
            \* dictionary yields them), tags (the nested tag children) and
            \* nds (the ref of each nd child), both in document order
  pc,       \* "start", "attrs", "address", "rule", "refs"; at the end
            \* "return" (a record), "none" (None) or "raise" (an exception)
  node,     \* the record being built
  lat,
  lon,
  ai,       \* the attribute the loop of line 66 is at
  ki,       \* the key the loop of line 120 is at
  text,     \* the local of lines 122-179
  ni,       \* the nd child the loop of line 200 is at
  err       \* the exception raised, "" for none

vars == <<element, pc, node, lat, lon, ai, ki, text, ni, err>>

Start(e) ==
  /\ element = e
  /\ pc = "start"
  /\ node = EmptyDict
  /\ lat = None
  /\ lon = None
  /\ ai = 1
  /\ ki = 1
  /\ text = <<>>
  /\ ni = 1
  /\ err = ""

Raise(e) ==
  /\ pc' = "raise"
  /\ err' = e

\* lines 60-64
Accept ==
  /\ pc = "start"
  /\ element.tag = NodeTag \/ element.tag = WayTag
  /\ node' = Put(EmptyDict, TypeKey, StrV(element.tag))
  /\ pc' = "attrs"
  /\ UNCHANGED <<element, lat, lon, ai, ki, text, ni, err>>

\* lines 207-208
Reject ==
  /\ pc = "start"
  /\ ~(element.tag = NodeTag \/ element.tag = WayTag)
  /\ pc' = "none"
  /\ UNCHANGED <<element, node, lat, lon, ai, ki, text, ni, err>>

\* lines 66-112: one attribute, then every nested tag
AttribStep ==
  /\ pc = "attrs"
  /\ ai <= Len(element.attrib)
  /\ LET r == AttribTurn(node, lat, lon, element.attrib[ai][1],
                         element.attrib[ai][2], element.tags)
     IN IF r.err # ""
        THEN Raise(r.err) /\ UNCHANGED <<node, lat, lon, ai>>
        ELSE /\ node' = r.node
             /\ lat' = r.lat
             /\ lon' = r.lon
             /\ ai' = ai + 1
             /\ UNCHANGED <<pc, err>>
  /\ UNCHANGED <<element, ki, text, ni>>

\* line 116, after the last attribute
AttribsDone ==
  /\ pc = "attrs"
  /\ ai > Len(element.attrib)
  /\ pc' = IF has_key(node, AddressKey) THEN "address" ELSE "refs"
  /\ UNCHANGED <<element, node, lat, lon, ai, ki, text, ni, err>>

\* lines 120-139: the next address key; a present one is cleaned
AddressStep ==
  /\ pc = "address"
  /\ ki <= Len(address_key)
  /\ IF node[AddressKey].kind # "dict"
     THEN Raise("AttributeError") /\ UNCHANGED <<node, ki, text>>
     ELSE IF has_key(node[AddressKey].dict, address_key[ki])
     THEN /\ text' = GenericClean(node[AddressKey].dict[address_key[ki]])
          /\ node' = Put(node, AddressKey,
                         DictV(Put(node[AddressKey].dict, address_key[ki], text')))
          /\ pc' = "rule"
          /\ UNCHANGED <<ki, err>>
     ELSE /\ ki' = ki + 1
          /\ UNCHANGED <<node, text, pc, err>>
  /\ UNCHANGED <<element, lat, lon, ai, ni>>

\* lines 142-179: the rule of the key just cleaned
RuleStep ==
  /\ pc = "rule"
  /\ LET r == KeyRule(node, address_key[ki], text)
     IN IF r.err # ""
        THEN Raise(r.err) /\ UNCHANGED <<node, ki>>
        ELSE /\ node' = r.node
             /\ ki' = ki + 1
             /\ pc' = "address"
             /\ UNCHANGED err
  /\ UNCHANGED <<element, lat, lon, ai, text, ni>>

\* after the last address key
AddressDone ==
  /\ pc = "address"
  /\ ki > Len(address_key)
  /\ pc' = "refs"
  /\ UNCHANGED <<element, node, lat, lon, ai, ki, text, ni, err>>

\* lines 199-203: one nd child of a way
RefStep ==
  /\ pc = "refs"
  /\ element.tag = WayTag
  /\ ni <= Len(element.nds)
  /\ LET n1 == IF has_key(node, NodeRefsKey) THEN node
               ELSE Put(node, NodeRefsKey, ListV(<<>>))
     IN IF n1[NodeRefsKey].kind # "list"
        THEN Raise("AttributeError") /\ UNCHANGED <<node, ni>>
        ELSE /\ node' = Put(n1, NodeRefsKey,
                            ListV(Append(n1[NodeRefsKey].list, element.nds[ni])))
             /\ ni' = ni + 1
             /\ UNCHANGED <<pc, err>>
  /\ UNCHANGED <<element, lat, lon, ai, ki, text>>

\* line 206
Return ==
  /\ pc = "refs"
  /\ element.tag = WayTag => ni > Len(element.nds)
  /\ pc' = "return"
  /\ UNCHANGED <<element, node, lat, lon, ai, ki, text, ni, err>>

Next ==
  \/ Accept
  \/ Reject
  \/ AttribStep
  \/ AttribsDone
  \/ AddressStep
  \/ RuleStep
  \/ AddressDone
  \/ RefStep
  \/ Return

\* ------------------------------------------------------------------------
\* The elements shape_element is called on
\* ------------------------------------------------------------------------

MaxAttribs == 2
MaxTags == 2
MaxNds == 2
MaxPosAttribs == 3
MaxAddrTags == 2
MaxCityLen == 4

SeqsUpTo(S, n) == UNION {[1..m -> S] : m \in 0..n}

\* the orders a dictionary of at most n of the attributes A can be
\* iterated in: no name twice
AttribSeqs(A, n) ==
  {q \in SeqsUpTo(A, n) :
     \A a, b \in 1..Len(q) : a # b => q[a][1] # q[b][1]}

Elem(t, a, g, r) == [tag |-> t, attrib |-> a, tags |-> g, nds |-> r]

KV(k, v) == [k |-> Some(k), v |-> Some(v)]

IdKey == <<"i", "d">>
VersionKey == <<"v", "e", "r", "s", "i", "o", "n">>
NameKey == <<"n", "a", "m", "e">>
AddrCity == AddrPrefix \o CityKey
AddrStreet == AddrPrefix \o StreetKey
AddrHousenumber == AddrPrefix \o HousenumberKey
AddrHousename == AddrPrefix \o HousenameKey
AddrPostcode == AddrPrefix \o PostcodeKey

\* a postcode with its hyphen, a domestic phone number, and a phone number
\* in the international form: 81, a space, digits
PostcodeText == <<"1", "2", "3", "-", "4", "5", "6", "7">>
PhoneText == <<"0", "7", "5", "-", "1", "2", "3", "-", "4", "5", "6", "7">>
IntlPhoneText == <<"8", "1", " ", "7", "5">>

\* elements that take every path of shape_element once
CommonElements ==
  {Elem(<<"r", "e", "l", "a", "t", "i", "o", "n">>, <<<<IdKey, <<"1">>>>>>, <<>>, <<>>),
   Elem(WayTag, <<<<IdKey, <<"1">>>>>>,
        <<KV(AddrHousename, <<"a">>)>>, <<<<"1", "0">>, <<"2", "0">>>>)}

\* attributes, nested tags and nd children of every kind, values short
RouteAttribs ==
  {<<IdKey, <<"1">>>>, <<VersionKey, <<"FW2">>>>, <<TypeKey, <<"x">>>>}

RouteTagPool ==
  {KV(TypeKey, <<"a">>), KV(NameKey, <<"a">>), KV(NameKey, <<"FW1">>),
   KV(AddrStreet, <<"s">>), KV(AddrStreet \o <<":", "e", "n">>, <<"s">>),
   KV(<<"a", " ", "b">>, <<"a">>), KV(IdKey, <<"7">>),
   KV(NodeRefsKey, <<"a">>), KV(AddressKey, <<"a">>), KV(CreatedKey, <<"a">>),
   [k |-> None, v |-> Some(<<"a">>)], [k |-> Some(NameKey), v |-> None]}

Refs == {<<"1", "0">>, <<"2", "0">>}

RouteStart ==
  \E t \in {NodeTag, WayTag},
     a \in AttribSeqs(RouteAttribs, MaxAttribs),
     g \in SeqsUpTo(RouteTagPool, MaxTags),
     r \in SeqsUpTo(Refs, MaxNds) : Start(Elem(t, a, g, r))

\* latitude and longitude: numbers, text that is no number, the empty string
PosAttribs ==
  {<<LatKey, <<"3", "4", ".", "9", "0">>>>, <<LatKey, <<"a", "b", "c">>>>,
   <<LatKey, <<>>>>, <<LatKey, <<"FW1">>>>,
   <<LonKey, <<"-", "1", "3", "5">>>>, <<LonKey, <<"1", ".", "2", ".", "3">>>>,
   <<LonKey, <<>>>>,
   <<VersionKey, <<"3">>>>, <<IdKey, <<"1">>>>}

PosStart ==
  \E t \in {NodeTag, WayTag},
     a \in AttribSeqs(PosAttribs, MaxPosAttribs),
     g \in {<<>>, <<KV(NameKey, <<"a">>)>>} : Start(Elem(t, a, g, <<>>))

\* address tags whose values hold postcodes, phone numbers and the
\* characters the generic cleaning removes
AddrValues ==
  {PostcodeText, PhoneText, IntlPhoneText,
   <<"1", "2", "3", "4", "5", "6", "7">>,
   <<"FW1", "2", "3", "-", "4", "5", "6", "7">>,
   <<"\t">> \o PostcodeText \o <<NL>>,
   <<"(", "a", ")">> \o PostcodeText \o <<";", "b">>,
   <<"a", ";", "b", "(", "c", ")">>, <<"a", ";", "y", "e", "s">>,
   <<"a", " ", "b", ";", "c">>}

AddrTagPool ==
  {KV(k, v) : k \in {AddrStreet, AddrHousenumber, AddrPostcode}, v \in AddrValues}

AddrAttribs ==
  {<<<<IdKey, <<"1">>>>>>, <<<<VersionKey, <<"3">>>>>>,
   <<<<VersionKey, <<"3">>>>, <<IdKey, <<"1">>>>>>}

AddrStart ==
  \E a \in AddrAttribs, g \in SeqsUpTo(AddrTagPool, MaxAddrTags) :
    Start(Elem(NodeTag, a, g, <<>>))

\* city values: every string of the characters the city and ward patterns
\* tell apart, with a space and a line break, alone or before a street tag
CityChars == {"FU", "SHI", "KU", "KYO", " ", NL}

CityStart ==
  \E v \in SeqsUpTo(CityChars, MaxCityLen),
     g \in {<<>>, <<KV(AddrStreet, <<"s">>)>>} :
    Start(Elem(NodeTag, <<<<IdKey, <<"1">>>>>>, <<KV(AddrCity, v)>> \o g, <<>>))

CommonStart == \E e \in CommonElements : Start(e)

Init == CommonStart \/ RouteStart \/ PosStart \/ AddrStart \/ CityStart

Spec == Init /\ [][Next]_vars

InitPos == CommonStart \/ PosStart

SpecPos == InitPos /\ [][Next]_vars

InitAddr == CommonStart \/ AddrStart

SpecAddr == InitAddr /\ [][Next]_vars

InitCity == CommonStart \/ CityStart

SpecCity == InitCity /\ [][Next]_vars

\* ------------------------------------------------------------------------
\* Properties
\* ------------------------------------------------------------------------

Ended == pc \in {"return", "none", "raise"}

\* the address dictionary of the record, once the record has one
HasAddress == has_key(node, AddressKey) /\ node[AddressKey].kind = "dict"

Address == node[AddressKey].dict

PhoneSet ==
  /\ has_key(node, CreatedKey)
  /\ node[CreatedKey].kind = "dict"
  /\ has_key(node[CreatedKey].dict, PhoneKey)

\* C1: the record returned for a node or a way has type equal to the
\* element's tag name, and a nested tag whose key is "type" is stored at
\* type_m.
C1_TypeIsTagName ==
  pc = "return" =>
    /\ has_key(node, TypeKey)
    /\ node[TypeKey] = StrV(element.tag)
    /\ \A n \in 1..Len(element.tags) :
         element.tags[n].k = Some(TypeKey) => has_key(node, TypeMKey)

\* the record one pass over the nested tags gives
SinglePass ==
  RouteTags(Put(EmptyDict, TypeKey, StrV(element.tag)), element.tags)

\* C2: when the loop over the attributes ends, the fields the nested tags
\* produce are those of a single pass over the tags in document order, last
\* write winning, however many attributes the element has.
C2_SinglePassWhateverAttribs ==
  (pc = "attrs" /\ ai > Len(element.attrib) /\ SinglePass.err = "") =>
    \A k \in DOMAIN SinglePass.node \ {TypeKey} :
      has_key(node, k) /\ node[k] = SinglePass.node[k]

\* C4: the record has node_refs exactly when the element is a way with at
\* least one nd child, and node_refs is then the children's ref values in
\* document order, whatever nested tags the element carries.
C4_NodeRefsIffWayWithNd ==
  pc = "return" =>
    /\ has_key(node, NodeRefsKey) <=> (element.tag = WayTag /\ element.nds # <<>>)
    /\ has_key(node, NodeRefsKey) => node[NodeRefsKey] = ListV(element.nds)

\* C5: when the rule of housenumber or street runs on a value matching the
\* phone pattern and created.phone is not set, the value is moved into
\* created.phone and the address field is cleared.
C5_PhoneMoved ==
  [][(/\ pc = "rule"
      /\ address_key[ki] \in {HousenumberKey, StreetKey}
      /\ re_phonenumber(text)
      /\ ~PhoneSet)
     => /\ pc' = "address"
        /\ node'[CreatedKey].dict[PhoneKey] = text
        /\ node'[AddressKey].dict[address_key[ki]] = <<>>]_vars

HasSemicolon(t) == \E n \in 1..Len(t) : t[n] = ";"

FirstSemicolon(t) == Leftmost({n \in 1..Len(t) : t[n] = ";"})

\* C8: a value of one of the five address keys that contains a semicolon
\* contains none after the generic cleaning, and nothing of what followed
\* the first semicolon.
C8_SemicolonStripped ==
  [][(pc = "address" /\ pc' = "rule"
        /\ HasSemicolon(Address[address_key[ki]]))
     => /\ ~HasSemicolon(text')
        /\ Len(text') < FirstSemicolon(Address[address_key[ki]])]_vars

HasCreatedAttrib ==
  \E n \in 1..Len(element.attrib) : element.attrib[n][1] \in CREATED

\* C9: for an element with created metadata whose one nested tag is an
\* addr:street or addr:housenumber holding a phone number of the form
\* 81, a whitespace character, digits, shaping ends with that number in
\* created.phone and the address field empty.
C9_IntlPhoneMoved ==
  (/\ Ended
   /\ HasCreatedAttrib
   /\ Len(element.tags) = 1
   /\ element.tags[1].k \in {Some(AddrStreet), Some(AddrHousenumber)}
   /\ IsIntlPhone(NFKC(Unicode(element.tags[1].v))))
  => /\ pc = "return"
     /\ PhoneSet
     /\ node[CreatedKey].dict[PhoneKey] = NFKC(Unicode(element.tags[1].v))
     /\ Address[Slice(element.tags[1].k.str, 5, Len(element.tags[1].k.str))] = <<>>

\* C10: a node or way whose lat and lon values parse as numbers and whose
\* nested tags all carry a k never makes shape_element raise.
C10_OnlyNumbersAndMissingKFail ==
  (/\ \A n \in 1..Len(element.attrib) :
        element.attrib[n][1] \in {LatKey, LonKey} => IsFloat(element.attrib[n][2])
   /\ \A n \in 1..Len(element.tags) : element.tags[n].k.some)
  => pc # "raise"

\* the position of the attribute named k, 0 when the element has none
AttribAt(k) ==
  LET S == {n \in 1..Len(element.attrib) : element.attrib[n][1] = k}
  IN IF S = {} THEN 0 ELSE Leftmost(S)

LatText == element.attrib[AttribAt(LatKey)][2]

LonText == element.attrib[AttribAt(LonKey)][2]

\* the element has a lat and a lon, neither the empty string
PairPresent ==
  /\ AttribAt(LatKey) > 0
  /\ AttribAt(LonKey) > 0
  /\ LatText # <<>>
  /\ LonText # <<>>

\* the attribute at which the second of lat and lon is seen
PairAt == Max(AttribAt(LatKey), AttribAt(LonKey))

BadPair == PairPresent /\ ~(IsFloat(LatText) /\ IsFloat(LonText))

SevenDigits(t) == <<t[1], t[2], t[3], t[5], t[6], t[7], t[8]>>

\* C6: address.postcode of a returned record is never of the form
\* NNN-NNNN; the postcode rule stores a cleaned value of that form as its
\* seven digits; the housenumber/street rule moves such a value to
\* address.postcode as its seven digits and clears the field, and only
\* when address.postcode was not set.
C6_PostcodeNeverHyphenated ==
  /\ []((pc = "return" /\ HasAddress /\ has_key(Address, PostcodeKey))
          => ~IsPostcode(Address[PostcodeKey]))
  /\ [][(pc = "rule" /\ IsPostcode(text)) =>
          /\ pc' = "address"
          /\ address_key[ki] = PostcodeKey =>
               node'[AddressKey].dict = Put(Address, PostcodeKey, SevenDigits(text))
          /\ address_key[ki] \in {HousenumberKey, StreetKey} =>
               node'[AddressKey].dict =
                 IF has_key(Address, PostcodeKey) THEN Address
                 ELSE Put(Put(Address, PostcodeKey, SevenDigits(text)),
                          address_key[ki], <<>>)]_vars

\* C6's case: a record returned with the postcode that was a hyphenated
\* street value, the street cleared
C6_Witness ==
  /\ pc = "return"
  /\ element.tags = <<KV(AddrStreet, PostcodeText)>>
  /\ HasAddress
  /\ has_key(Address, PostcodeKey)
  /\ Address[PostcodeKey] = SevenDigits(PostcodeText)
  /\ Address[StreetKey] = <<>>

\* the spans [^FU]+SHI of t, as pairs of first and last position
CitySpans(t) ==
  {p \in (1..Len(t)) \X (1..Len(t)) :
     /\ p[1] < p[2]
     /\ t[p[2]] = "SHI"
     /\ \A n \in p[1]..(p[2] - 1) : t[n] # "FU"}

\* the first of them: the leftmost start, and from it the longest
FirstCity(t) ==
  IF CitySpans(t) = {} THEN <<>>
  ELSE LET p == CHOOSE p \in CitySpans(t) :
                  \A q \in CitySpans(t) :
                    p[1] < q[1] \/ (p[1] = q[1] /\ p[2] >= q[2])
       IN SubSeq(t, p[1], p[2])

\* the positions a ward span can start at, and the KU it runs up to
WardSpans(t) ==
  {p \in (1..Len(t)) \X (1..Len(t)) :
     /\ p[1] < p[2]
     /\ t[p[2]] = "KU"
     /\ \A n \in p[1]..(p[2] - 1) : t[n] # "SHI"}

FirstWard(t) ==
  CHOOSE p \in WardSpans(t) :
    \A q \in WardSpans(t) : p[1] < q[1] \/ (p[1] = q[1] /\ p[2] >= q[2])

\* the ward span with everything after it
WardToEnd(t) == SubSeq(t, FirstWard(t)[1], Len(t))

\* the ward span with the rest of its last line
WardToLineEnd(t) ==
  LET p == FirstWard(t)
      breaks == {n \in (p[2] + 1)..Len(t) : t[n] = NL}
  IN SubSeq(t, p[1], IF breaks = {} THEN Len(t) ELSE Leftmost(breaks) - 1)

StreetAfter(a, span) ==
  IF has_key(a, StreetKey) THEN span \o a[StreetKey] ELSE span

CityAndWardToLineEnd ==
  [][(pc = "rule" /\ address_key[ki] = CityKey) =>
       /\ pc' = "address"
       /\ node'[AddressKey].dict[CityKey] = FirstCity(text)
       /\ WardSpans(text) # {} =>
            node'[AddressKey].dict =
              Put(Put(Address, CityKey, FirstCity(text)), StreetKey,
                  StreetAfter(Address, WardToLineEnd(text)))
       /\ WardSpans(text) = {} =>
            node'[AddressKey].dict = Put(Address, CityKey, FirstCity(text))]_vars

\* ------------------------------------------------------------------------
\* Where the refuted claims do hold
\* ------------------------------------------------------------------------

AttribNames == {element.attrib[n][1] : n \in 1..Len(element.attrib)}

TagKeys == {element.tags[n].k : n \in 1..Len(element.tags)}

\* type is the tag name and a type tag is stored at type_m when the element
\* has an attribute and none of them is named type
TypeIsTagNameOtherwise ==
  (Len(element.attrib) > 0 /\ TypeKey \notin AttribNames) => C1_TypeIsTagName

\* the nested tags give the fields of a single pass when the element has an
\* attribute
SinglePassWithAttribs ==
  Len(element.attrib) > 0 => C2_SinglePassWhateverAttribs

\* node_refs is as claimed when no attribute and no nested tag is named
\* node_refs
NodeRefsOtherwise ==
  (NodeRefsKey \notin AttribNames /\ Some(NodeRefsKey) \notin TagKeys)
    => C4_NodeRefsIffWayWithNd

\* a phone number is moved when the record has its created dictionary
PhoneMovedWithCreated ==
  [][(/\ pc = "rule"
      /\ address_key[ki] \in {HousenumberKey, StreetKey}
      /\ re_phonenumber(text)
      /\ has_key(node, CreatedKey)
      /\ node[CreatedKey].kind = "dict"
      /\ ~PhoneSet)
     => /\ pc' = "address"
        /\ node'[CreatedKey].dict[PhoneKey] = text
        /\ node'[AddressKey].dict[address_key[ki]] = <<>>]_vars

\* a semicolon and what follows it are removed from a value without a
\* parenthesized span, "yes" or a line break
SemicolonStrippedOtherwise ==
  [][(/\ pc = "address"
      /\ pc' = "rule"
      /\ HasSemicolon(Address[address_key[ki]])
      /\ ~addr_problemchars(Address[address_key[ki]]).found
      /\ NoBreak(Address[address_key[ki]], 1, Len(Address[address_key[ki]])))
     => /\ ~HasSemicolon(text')
        /\ Len(text') < FirstSemicolon(Address[address_key[ki]])]_vars

\* the only exceptions are those of the four kinds the code can raise
FailureKinds ==
  pc = "raise" => err \in {"ValueError", "TypeError", "KeyError", "AttributeError"}

====
